---- MODULE Spec2Model ----
(***************************************************************************)
(* Model of generate_bolt_input (src/app.py), the bolt mesh builder and    *)
(* Abaqus deck writer.                                                     *)
(*                                                                         *)
(* Lengths are integers (a whole number of length units).  A radius is     *)
(* half a diameter, so radii are carried doubled: the field radius2 of a   *)
(* node is twice its radius; int(head_radius / element_size) is            *)
(* Trunc(head_diameter, 2 * element_size).  A height z is the exact        *)
(* fraction znum / zden.  The angle of circumferential index i is          *)
(* 2*pi*i / num_circ, carried as the pair (i, num_circ).                   *)
(***************************************************************************)
EXTENDS Integers, Sequences, FiniteSets, TLC

\* ---- bounds of the inputs that are enumerated ----
MaxHeadDiameter == 5
MaxHeadThickness == 2
MaxShankDiameter == 3
MaxShankLength == 2
MaxElementSize == 2

\* Values a caller can pass: positive ones up to the bound, and the
\* non-positive values 0 and -1.
HeadDiameters == (0 - 1) .. MaxHeadDiameter
HeadThicknesses == (0 - 1) .. MaxHeadThickness
ShankDiameters == (0 - 1) .. MaxShankDiameter
ShankLengths == (0 - 1) .. MaxShankLength
ElementSizes == (0 - 1) .. MaxElementSize

ParamSpace ==
    [head_diameter : HeadDiameters, head_thickness : HeadThicknesses,
     shank_diameter : ShankDiameters, shank_length : ShankLengths,
     element_size : ElementSizes]

NoParams ==
    [head_diameter |-> 0, head_thickness |-> 0, shank_diameter |-> 0,
     shank_length |-> 0, element_size |-> 0]

\* ---- arithmetic of the source ----
Abs(a) == IF a < 0 THEN 0 - a ELSE a

Max(a, b) == IF a >= b THEN a ELSE b

Min(a, b) == IF a <= b THEN a ELSE b

\* int(a / b) of Python for b # 0: the quotient truncated toward zero.
Trunc(a, b) ==
    LET q == Abs(a) \div Abs(b)
    IN  IF (a < 0) = (b < 0) THEN q ELSE 0 - q

\* np.pi as the fraction 355/113; int(pi * d / e) is exact for |d| < 113.
PiNum == 355
PiDen == 113

\* len(range(n))
RangeLen(n) == Max(0, n)

\* line 20
NumCircumferentialElements(p) ==
    Max(8, Trunc(PiNum * Max(p.head_diameter, p.shank_diameter),
                 PiDen * p.element_size))

\* line 21
NumHeadThicknessElements(p) ==
    Max(1, Trunc(p.head_thickness, p.element_size))

\* NumShankLengthElements with a product in place of the quotient.
NumShankLengthElementsProduct(p) ==
    Max(1, p.shank_length * p.element_size)

\* line 22
NumShankLengthElements(p) ==
    Max(1, Trunc(p.shank_length, p.element_size))

\* int(head_radius / element_size), lines 34, 35, 53, 54, 86
NumHeadRadial(p) == Trunc(p.head_diameter, 2 * p.element_size)

\* HeadRadius2 without the clamp of the last ring to head_radius.
HeadRadius2Unclamped(p, r) == 2 * r * p.element_size

\* lines 35 and 54: twice the radius of radial index r
HeadRadius2(p, r) ==
    IF r < NumHeadRadial(p) THEN 2 * r * p.element_size ELSE p.head_diameter

\* lines 71, 72: twice the radius of a shank node
ShankRadius2(p) == p.shank_diameter

\* ---- the text lines around the tables ----
Heading ==
    << "** Abaqus Input File for 3D Bolt Model", "*Heading", "3D Bolt Model", "",
       "*Part, name=Bolt", "*Node" >>

ElementMarker == "*Element, type=C3D8"

Trailer ==
    << "*End Part", "", "*Material, name=Steel", "*Elastic", "210000, 0.3", "",
       "*Solid Section, elset=ALL_ELEMENTS, material=Steel",
       "*Assembly, name=Assembly", "*Instance, name=Bolt-1, part=Bolt",
       "*End Instance", "*End Assembly", "",
       "*Step, name=StaticStep, nlgeom=YES", "*Static",
       "1.0, 1.0, 1e-05, 1.0", "", "*End Step" >>

TextLine(s) == [kind |-> "text", text |-> s]

RECURSIVE TextLines(_)
TextLines(ss) ==
    IF ss = << >> THEN << >> ELSE << TextLine(Head(ss)) >> \o TextLines(Tail(ss))

\* A node line "id, x, y, z".  region/layer/circ/rad name the loop iteration
\* that wrote the line.
NodeLine(id, region, lay, ci, ra, rad2, zn, zd) ==
    [kind |-> "node", id |-> id, region |-> region, layer |-> lay, circ |-> ci,
     rad |-> ra, radius2 |-> rad2, znum |-> zn, zden |-> zd]

\* The (x, y, z) triple appended to node_coordinates.
Coordinate(rad2, ci, zn, zd) ==
    [radius2 |-> rad2, circ |-> ci, znum |-> zn, zden |-> zd]

\* An element line "id, n1, ..., n8".
ElementLine(id, region, lay, ci, ra, ns) ==
    [kind |-> "elem", id |-> id, region |-> region, layer |-> lay, circ |-> ci,
     rad |-> ra, n |-> ns]

\* ---- the dictionary nodes ----
\* Store after the increment of node_id instead of before it.
StoreAfterIncrement(d, key, value) == (key :> value + 1) @@ d

\* nodes[key] = value
Store(d, key, value) == (key :> value) @@ d

\* nodes.get(key, 1)
Get(d, key) == IF key \in DOMAIN d THEN d[key] ELSE 1

EmptyDict == [k \in {} |-> 0]

\* line 41
HeadTopKey(ci, ra) == << 0, ci, ra >>

\* line 59
HeadLayerKey(lay, ci, ra) == << lay, ci, ra >>

\* ShankKey without the offset by the number of head layers.
ShankKeyNoOffset(p, lay, ci) == << lay, ci, 0 >>

\* line 75
ShankKey(p, lay, ci) == << lay + NumHeadThicknessElements(p), ci, 0 >>

\* lines 88-95: the 8 keys looked up for head cell (lay, ci, ra)
HeadCornerKeys(lay, ci, ra) ==
    << << lay, ci, ra >>, << lay, ci + 1, ra >>,
       << lay, ci + 1, ra + 1 >>, << lay, ci, ra + 1 >>,
       << lay + 1, ci, ra >>, << lay + 1, ci + 1, ra >>,
       << lay + 1, ci + 1, ra + 1 >>, << lay + 1, ci, ra + 1 >> >>

\* lines 104-107: the 4 keys looked up for shank cell (lay, ci)
ShankCornerKeys(p, lay, ci) ==
    LET h == NumHeadThicknessElements(p)
    IN  << << lay + h, ci, 0 >>, << lay + h, ci + 1, 0 >>,
           << lay + h + 1, ci + 1, 0 >>, << lay + h + 1, ci, 0 >> >>

\* line 109: n1, n2, n3, n4, n1, n2, n3, n4
ShankElementNodes(d, p, lay, ci) ==
    LET k == ShankCornerKeys(p, lay, ci)
        q == [j \in 1..4 |-> Get(d, k[j])]
    IN  q \o q

\* lines 88-97
HeadElementNodes(d, lay, ci, ra) ==
    LET k == HeadCornerKeys(lay, ci, ra)
    IN  [j \in 1..8 |-> Get(d, k[j])]

\* ---- the loop nests ----
Phases == << "head_top", "head_layers", "shank_nodes", "head_elements", "shank_elements" >>

\* LoopShape with the node loops running range(n) instead of range(n + 1).
LoopShapeShortRadial(ph, p) ==
    LET c == NumCircumferentialElements(p)
        h == NumHeadThicknessElements(p)
        s == NumShankLengthElements(p)
        n == NumHeadRadial(p)
    IN  CASE ph = "head_top"       -> [first |-> 0, stop |-> 1, circ |-> c + 1, rad |-> RangeLen(n)]
          [] ph = "head_layers"    -> [first |-> 1, stop |-> h + 1, circ |-> c + 1, rad |-> RangeLen(n)]
          [] ph = "shank_nodes"    -> [first |-> 0, stop |-> s + 1, circ |-> c + 1, rad |-> 1]
          [] ph = "head_elements"  -> [first |-> 0, stop |-> h, circ |-> c, rad |-> RangeLen(n)]
          [] ph = "shank_elements" -> [first |-> 0, stop |-> s, circ |-> c, rad |-> 1]

\* For each loop nest: the first value of the layer variable, the end of
\* its range (exclusive), and the lengths of the circumferential and radial
\* ranges (a nest without a radial loop runs its body once per index).
LoopShape(ph, p) ==
    LET c == NumCircumferentialElements(p)
        h == NumHeadThicknessElements(p)
        s == NumShankLengthElements(p)
        n == NumHeadRadial(p)
    IN  CASE ph = "head_top"       -> [first |-> 0, stop |-> 1, circ |-> c + 1, rad |-> RangeLen(n + 1)]
          [] ph = "head_layers"    -> [first |-> 1, stop |-> h + 1, circ |-> c + 1, rad |-> RangeLen(n + 1)]
          [] ph = "shank_nodes"    -> [first |-> 0, stop |-> s + 1, circ |-> c + 1, rad |-> 1]
          [] ph = "head_elements"  -> [first |-> 0, stop |-> h, circ |-> c, rad |-> RangeLen(n)]
          [] ph = "shank_elements" -> [first |-> 0, stop |-> s, circ |-> c, rad |-> 1]

\* A loop nest whose body runs at least once.
Runs(ph, p) ==
    LET sh == LoopShape(ph, p)
    IN  sh.first < sh.stop /\ sh.circ > 0 /\ sh.rad > 0

\* The first loop nest from position k of Phases on whose body runs, or
\* "complete" (line 112) when none does.
RECURSIVE EnterFrom(_, _)
EnterFrom(k, p) ==
    IF k > Len(Phases) THEN "complete"
    ELSE IF Runs(Phases[k], p) THEN Phases[k]
    ELSE EnterFrom(k + 1, p)

\* The control state on entering the loop nests from position k on.
Enter(k, p) ==
    LET nx == EnterFrom(k, p)
    IN  [pc |-> nx,
         layer |-> IF nx = "complete" THEN 0 ELSE LoopShape(nx, p).first,
         i |-> 0, r |-> 0]

PhaseIndex(ph) == CHOOSE k \in 1..Len(Phases) : Phases[k] = ph

\* Advance with the radial loop outside the circumferential loop.
AdvanceRadialOuter(ph, p, lay, ci, ra) ==
    LET sh == LoopShape(ph, p)
    IN  IF ci + 1 < sh.circ THEN [pc |-> ph, layer |-> lay, i |-> ci + 1, r |-> ra]
        ELSE IF ra + 1 < sh.rad THEN [pc |-> ph, layer |-> lay, i |-> 0, r |-> ra + 1]
        ELSE IF lay + 1 < sh.stop THEN [pc |-> ph, layer |-> lay + 1, i |-> 0, r |-> 0]
        ELSE IF ph = "shank_nodes" THEN [pc |-> "element_marker", layer |-> 0, i |-> 0, r |-> 0]
        ELSE Enter(PhaseIndex(ph) + 1, p)

\* The control state after the body of nest ph ran at (lay, ci, ra).
Advance(ph, p, lay, ci, ra) ==
    LET sh == LoopShape(ph, p)
    IN  IF ra + 1 < sh.rad THEN [pc |-> ph, layer |-> lay, i |-> ci, r |-> ra + 1]
        ELSE IF ci + 1 < sh.circ THEN [pc |-> ph, layer |-> lay, i |-> ci + 1, r |-> 0]
        ELSE IF lay + 1 < sh.stop THEN [pc |-> ph, layer |-> lay + 1, i |-> 0, r |-> 0]
        ELSE IF ph = "shank_nodes" THEN [pc |-> "element_marker", layer |-> 0, i |-> 0, r |-> 0]
        ELSE Enter(PhaseIndex(ph) + 1, p)

\* ---- state ----
VARIABLES pc, params, output, node_id, nodes, node_coordinates, element_id,
          layer, i, r, prev

vars == << pc, params, output, node_id, nodes, node_coordinates, element_id,
           layer, i, r, prev >>

\* prev records the line counts of the build that ran before this one.
NoBuild == [built |-> FALSE, params |-> NoParams, node_lines |-> 0, element_lines |-> 0]

Init ==
    /\ pc = "idle"
    /\ params = NoParams
    /\ output = << >>
    /\ node_id = 0
    /\ nodes = EmptyDict
    /\ node_coordinates = << >>
    /\ element_id = 0
    /\ layer = 0
    /\ i = 0
    /\ r = 0
    /\ prev = NoBuild

Goto(c) ==
    /\ pc' = c.pc
    /\ layer' = c.layer
    /\ i' = c.i
    /\ r' = c.r

\* lines 6-27: the call, up to the first loop.  The heading is written
\* first; line 20 divides by element_size and raises ZeroDivisionError.
Begin(p) ==
    /\ params' = p
    /\ output' = TextLines(Heading)
    /\ node_coordinates' = << >>
    /\ nodes' = EmptyDict
    /\ IF p.element_size = 0
       THEN /\ pc' = "raised"
            /\ node_id' = 0
            /\ element_id' = 0
            /\ layer' = 0 /\ i' = 0 /\ r' = 0
       ELSE /\ node_id' = 1
            /\ element_id' = 0
            /\ Goto(Enter(1, p))

Call ==
    /\ pc = "idle"
    /\ \E p \in ParamSpace : Begin(p)
    /\ UNCHANGED prev

WriteNode(ph, region, key, rad2, zn, zd) ==
    /\ output' = Append(output, NodeLine(node_id, region, layer, i, r, rad2, zn, zd))
    /\ nodes' = Store(nodes, key, node_id)
    /\ node_coordinates' = Append(node_coordinates, Coordinate(rad2, i, zn, zd))
    /\ node_id' = node_id + 1
    /\ Goto(Advance(ph, params, layer, i, r))
    /\ UNCHANGED << params, element_id, prev >>

\* lines 30-43
HeadTopNode ==
    /\ pc = "head_top"
    /\ WriteNode("head_top", "HEAD", HeadTopKey(i, r), HeadRadius2(params, r),
                 params.head_thickness, 1)

\* lines 46-61: z = head_thickness - (layer / n) * head_thickness
HeadLayerNode ==
    /\ pc = "head_layers"
    /\ LET n == NumHeadThicknessElements(params)
       IN  WriteNode("head_layers", "HEAD", HeadLayerKey(layer, i, r),
                     HeadRadius2(params, r), params.head_thickness * (n - layer), n)

\* lines 64-77: z = -layer * (shank_length / n)
ShankNode ==
    /\ pc = "shank_nodes"
    /\ LET n == NumShankLengthElements(params)
       IN  WriteNode("shank_nodes", "SHANK", ShankKey(params, layer, i),
                     ShankRadius2(params), (0 - layer) * params.shank_length, n)

\* lines 80, 81
StartElements ==
    /\ pc = "element_marker"
    /\ output' = Append(output, TextLine(ElementMarker))
    /\ element_id' = 1
    /\ Goto(Enter(PhaseIndex("head_elements"), params))
    /\ UNCHANGED << params, node_id, nodes, node_coordinates, prev >>

WriteElement(ph, region, ns) ==
    /\ output' = Append(output, ElementLine(element_id, region, layer, i, r, ns))
    /\ element_id' = element_id + 1
    /\ Goto(Advance(ph, params, layer, i, r))
    /\ UNCHANGED << params, node_id, nodes, node_coordinates, prev >>

\* lines 84-98
HeadElement ==
    /\ pc = "head_elements"
    /\ WriteElement("head_elements", "HEAD", HeadElementNodes(nodes, layer, i, r))

\* lines 101-110
ShankElement ==
    /\ pc = "shank_elements"
    /\ WriteElement("shank_elements", "SHANK", ShankElementNodes(nodes, params, layer, i))

\* lines 112-131
Return ==
    /\ pc = "complete"
    /\ output' = output \o TextLines(Trailer)
    /\ pc' = "returned"
    /\ UNCHANGED << params, node_id, nodes, node_coordinates, element_id, layer, i, r, prev >>

Next ==
    \/ Call
    \/ HeadTopNode
    \/ HeadLayerNode
    \/ ShankNode
    \/ StartElements
    \/ HeadElement
    \/ ShankElement
    \/ Return

Spec == Init /\ [][Next]_vars

\* The page script: after a build from inputs the form accepts (all
\* positive), the button is pressed again with another positive element size
\* and the other inputs unchanged; generate_bolt_input runs afresh.  prev
\* keeps the line counts of the build that just returned.
Regenerate ==
    /\ pc = "returned"
    /\ ~prev.built
    /\ params.head_diameter > 0 /\ params.head_thickness > 0
    /\ params.shank_diameter > 0 /\ params.shank_length > 0
    /\ params.element_size > 0
    /\ prev' = [built |-> TRUE, params |-> params,
                node_lines |-> Len(SelectSeq(output, LAMBDA l : l.kind = "node")),
                element_lines |-> Len(SelectSeq(output, LAMBDA l : l.kind = "elem"))]
    /\ \E e \in (1..MaxElementSize) \ {params.element_size} :
           Begin([params EXCEPT !.element_size = e])

NextPair == Next \/ Regenerate

SpecPair == Init /\ [][NextPair]_vars

\* ---- views of the state used by the properties ----
NodeLines == SelectSeq(output, LAMBDA l : l.kind = "node")

ElementLines == SelectSeq(output, LAMBDA l : l.kind = "elem")

\* The inputs the specification calls valid: every dimension and the
\* element size positive.
ValidParams(p) ==
    /\ p.head_diameter > 0
    /\ p.head_thickness > 0
    /\ p.shank_diameter > 0
    /\ p.shank_length > 0
    /\ p.element_size > 0

Returned == pc = "returned"

NodesGenerated ==
    pc \in {"element_marker", "head_elements", "shank_elements", "complete", "returned"}

\* floor(a / b) for a >= 0, b > 0, by its defining inequalities.
Floor(a, b) == CHOOSE q \in 0..a : q * b <= a /\ a < (q + 1) * b

\* lines 31, 36-38: two nodes of one build lie at the same (x, y, z).  With
\* radii >= 0, x = radius * cos(theta) and y = radius * sin(theta) agree for
\* two nodes when both radii are 0 or the radii are equal and the angles
\* differ by a whole turn.
SamePosition(a, b, ncirc) ==
    /\ a.znum * b.zden = b.znum * a.zden
    /\ \/ a.radius2 = 0 /\ b.radius2 = 0
       \/ a.radius2 = b.radius2 /\ (a.circ - b.circ) % ncirc = 0

\* The node lines written by loop iteration (region, a, ci, ra).
LinesOf(region, a, ci, ra) ==
    { k \in 1..Len(NodeLines) :
        /\ NodeLines[k].region = region /\ NodeLines[k].layer = a
        /\ NodeLines[k].circ = ci /\ NodeLines[k].rad = ra }

\* The id written on the node line of head node (a, ci, ra); 0 if there is
\* not exactly one such line.
HeadNodeId(a, ci, ra) ==
    LET ks == LinesOf("HEAD", a, ci, ra)
    IN  IF Cardinality(ks) = 1 THEN NodeLines[CHOOSE k \in ks : TRUE].id ELSE 0

\* ---- C1 ----
\* C1: in a returned build with all parameters positive, each of the 8 node
\* ids of every element line is in 1..N, N the number of node lines, and is
\* the id written on one of the node lines.
C1_ReferentialIntegrity ==
    (Returned /\ ValidParams(params)) =>
        LET nl == NodeLines
            el == ElementLines
        IN  \A e \in 1..Len(el) : \A j \in 1..8 :
                /\ Len(el[e].n) = 8
                /\ el[e].n[j] \in 1..Len(nl)
                /\ \E k \in 1..Len(nl) : nl[k].id = el[e].n[j]

\* A returned build with positive parameters that wrote head and shank
\* elements, one of them naming the last node.
C1_Witness ==
    /\ Returned /\ ValidParams(params)
    /\ \E e \in 1..Len(ElementLines) : ElementLines[e].region = "HEAD"
    /\ \E e \in 1..Len(ElementLines) :
          /\ ElementLines[e].region = "SHANK"
          /\ \E j \in 1..8 : ElementLines[e].n[j] = Len(NodeLines)

\* ---- C2 ----
\* 1-based rank of a node in the nested emission order: head layers
\* 0..nHead, then shank layers 0..nShank; inside a layer by circumferential
\* index, then by radial index.
Rank(p, region, a, ci, ra) ==
    LET c == NumCircumferentialElements(p) + 1
        n == NumHeadRadial(p) + 1
        h == NumHeadThicknessElements(p) + 1
    IN  IF region = "HEAD" THEN a * c * n + ci * n + ra + 1
        ELSE h * c * n + a * c + ci + 1

\* C2: with all parameters positive, a returned build has node ids 1..N in
\* order, the id of a node is its rank in the nested order (head layers from
\* z = head_thickness down to z = 0, then shank layers from z = 0 down to
\* z = -shank_length, by circumferential then radial index), every position of
\* the lattice is written, and node_coordinates is in the same order.
C2_ContiguousIdsInEmissionOrder ==
    (Returned /\ ValidParams(params)) =>
        LET nl == NodeLines
            N == Len(nl)
            c == NumCircumferentialElements(params)
            h == NumHeadThicknessElements(params)
            s == NumShankLengthElements(params)
            n == NumHeadRadial(params)
        IN  /\ N = (h + 1) * (c + 1) * (n + 1) + (s + 1) * (c + 1)
            /\ Len(node_coordinates) = N
            /\ \A k \in 1..N :
                  /\ nl[k].id = k
                  /\ Rank(params, nl[k].region, nl[k].layer, nl[k].circ, nl[k].rad) = k
                  /\ nl[k].circ \in 0..c
                  /\ nl[k].region = "HEAD" =>
                        /\ nl[k].layer \in 0..h /\ nl[k].rad \in 0..n
                        /\ nl[k].layer = 0 => nl[k].znum = params.head_thickness * nl[k].zden
                        /\ nl[k].layer = h => nl[k].znum = 0
                  /\ nl[k].region = "SHANK" =>
                        /\ nl[k].layer \in 0..s /\ nl[k].rad = 0
                        /\ nl[k].layer = 0 => nl[k].znum = 0
                        /\ nl[k].layer = s => nl[k].znum = (0 - params.shank_length) * nl[k].zden
                  /\ nl[k].zden > 0
                  /\ node_coordinates[k] =
                        Coordinate(nl[k].radius2, nl[k].circ, nl[k].znum, nl[k].zden)
            /\ \A k \in 1..(N - 1) :
                  \* z never rises along the emission order and falls from one layer to the next
                  /\ nl[k + 1].znum * nl[k].zden <= nl[k].znum * nl[k + 1].zden
                  /\ (nl[k + 1].region = nl[k].region /\ nl[k + 1].layer # nl[k].layer) =>
                        nl[k + 1].znum * nl[k].zden < nl[k].znum * nl[k + 1].zden

\* A returned build with several head layers, several shank layers and
\* several radial rings.
C2_Witness ==
    /\ Returned /\ ValidParams(params)
    /\ NumHeadThicknessElements(params) >= 2
    /\ NumShankLengthElements(params) >= 2
    /\ NumHeadRadial(params) >= 2
    /\ Len(NodeLines) > 100

\* ---- C3 ----
\* C3: in a returned build with positive parameters, every head cell
\* (a, ci, ra) has exactly one element line, and its 8 ids are the ids written
\* on the node lines of the head nodes (a,ci,ra), (a,ci+1,ra), (a,ci+1,ra+1),
\* (a,ci,ra+1), (a+1,ci,ra), (a+1,ci+1,ra), (a+1,ci+1,ra+1), (a+1,ci,ra+1),
\* the last head layer included.
C3_HeadCellCorners ==
    (Returned /\ ValidParams(params)) =>
        LET el == ElementLines
            c == NumCircumferentialElements(params)
            h == NumHeadThicknessElements(params)
            n == Floor(params.head_diameter, 2 * params.element_size)
        IN  \A a \in 0..(h - 1) : \A ci \in 0..(c - 1) : \A ra \in 0..(n - 1) :
                LET es == { e \in 1..Len(el) :
                              /\ el[e].region = "HEAD" /\ el[e].layer = a
                              /\ el[e].circ = ci /\ el[e].rad = ra }
                IN  /\ Cardinality(es) = 1
                    /\ \A e \in es :
                          el[e].n = << HeadNodeId(a, ci, ra), HeadNodeId(a, ci + 1, ra),
                                       HeadNodeId(a, ci + 1, ra + 1), HeadNodeId(a, ci, ra + 1),
                                       HeadNodeId(a + 1, ci, ra), HeadNodeId(a + 1, ci + 1, ra),
                                       HeadNodeId(a + 1, ci + 1, ra + 1),
                                       HeadNodeId(a + 1, ci, ra + 1) >>

\* ---- C4 ----
\* C4: when element_size is smaller than head_radius and shank_radius, every
\* element line written has 8 pairwise distinct node ids and no two of its
\* corners are nodes at the same position.
C4_NonDegenerateElements ==
    (/\ ValidParams(params)
     /\ 2 * params.element_size < params.head_diameter
     /\ 2 * params.element_size < params.shank_diameter) =>
        LET nl == NodeLines
            el == ElementLines
            c == NumCircumferentialElements(params)
        IN  \A e \in 1..Len(el) : \A j, k \in 1..8 :
                j < k =>
                    /\ el[e].n[j] # el[e].n[k]
                    /\ ~SamePosition(nl[el[e].n[j]], nl[el[e].n[k]], c)

\* ---- C5 ----
\* C5: a call with a dimension <= 0 or element_size <= 0 is rejected with an
\* invalid-parameter error before any line is produced: once called it is in
\* the rejected state with an empty output, never in any other state (writing
\* lines, failed on a division by zero, or returned).
C5_InvalidParametersRejected ==
    (pc # "idle" /\ ~ValidParams(params)) => (pc = "rejected" /\ output = << >>)

\* ---- C6 ----
\* C6 as stated: in a returned build with positive parameters, every head
\* node line of radial index ra is at radius min(ra * element_size, head_radius), exactly
\* head_radius for the largest index floor(head_radius / element_size) and
\* ra * element_size <= head_radius below it; every shank node line is at
\* radius shank_radius.
C6_RadiusIsMin ==
    (Returned /\ ValidParams(params)) =>
        LET nl == NodeLines
            n == Floor(params.head_diameter, 2 * params.element_size)
        IN  \A k \in 1..Len(nl) :
                /\ nl[k].region = "HEAD" =>
                      /\ nl[k].rad \in 0..n
                      /\ nl[k].radius2 = Min(2 * nl[k].rad * params.element_size,
                                             params.head_diameter)
                      /\ nl[k].rad = n => nl[k].radius2 = params.head_diameter
                      /\ nl[k].rad < n =>
                            /\ nl[k].radius2 = 2 * nl[k].rad * params.element_size
                            /\ nl[k].radius2 <= params.head_diameter
                /\ nl[k].region = "SHANK" => nl[k].radius2 = params.shank_diameter

\* C6 amended: in a returned build with positive parameters, every head
\* node line of the largest radial index n = floor(head_radius /
\* element_size) is at radius exactly head_radius, every head node line of
\* radial index ra < n is at radius
\* ra * element_size <= head_radius, and every shank node line is at radius
\* shank_radius.
C6_RingRadii ==
    (Returned /\ ValidParams(params)) =>
        LET nl == NodeLines
            n == Floor(params.head_diameter, 2 * params.element_size)
        IN  \A k \in 1..Len(nl) :
                /\ nl[k].region = "HEAD" =>
                      /\ nl[k].rad \in 0..n
                      /\ nl[k].rad = n => nl[k].radius2 = params.head_diameter
                      /\ nl[k].rad < n =>
                            /\ nl[k].radius2 = 2 * nl[k].rad * params.element_size
                            /\ nl[k].radius2 <= params.head_diameter
                /\ nl[k].region = "SHANK" => nl[k].radius2 = params.shank_diameter

\* A returned build whose element size does not divide the head radius, with
\* an outer head ring at head_radius and an inner ring inside it, and shank
\* nodes.
C6_Witness ==
    /\ Returned /\ ValidParams(params)
    /\ params.head_diameter % (2 * params.element_size) # 0
    /\ \E k \in 1..Len(NodeLines) :
          /\ NodeLines[k].region = "HEAD" /\ NodeLines[k].rad >= 1
          /\ NodeLines[k].radius2 = params.head_diameter
          /\ NodeLines[k].radius2 # 2 * NodeLines[k].rad * params.element_size
    /\ \E k \in 1..Len(NodeLines) :
          NodeLines[k].region = "HEAD" /\ NodeLines[k].rad >= 1
          /\ NodeLines[k].radius2 < params.head_diameter
    /\ \E k \in 1..Len(NodeLines) : NodeLines[k].region = "SHANK"

\* ---- C7 ----
\* The node lines of one layer of a region.
LayerLines(region, a) ==
    { k \in 1..Len(NodeLines) : NodeLines[k].region = region /\ NodeLines[k].layer = a }

\* C7: with positive parameters the build never raises; in a returned build,
\* if element_size > head_radius each of the nHeadLayers + 1 head layers has
\* exactly nCirc + 1 nodes, all at head_radius, and there is no head element;
\* if element_size > shank_diameter each of the nShankLayers + 1 shank layers
\* has exactly nCirc + 1 nodes, all at shank_radius.
C7_OversizedElementKeepsRing ==
    ValidParams(params) =>
        /\ pc # "raised"
        /\ Returned =>
              LET nl == NodeLines
                  c == NumCircumferentialElements(params)
                  h == NumHeadThicknessElements(params)
                  s == NumShankLengthElements(params)
              IN  /\ 2 * params.element_size > params.head_diameter =>
                        /\ \A a \in 0..h :
                              /\ Cardinality(LayerLines("HEAD", a)) = c + 1
                              /\ \A k \in LayerLines("HEAD", a) :
                                    nl[k].radius2 = params.head_diameter
                        /\ \A e \in 1..Len(ElementLines) : ElementLines[e].region # "HEAD"
                  /\ params.element_size > params.shank_diameter =>
                        \A a \in 0..s :
                            /\ Cardinality(LayerLines("SHANK", a)) = c + 1
                            /\ \A k \in LayerLines("SHANK", a) :
                                  nl[k].radius2 = params.shank_diameter

\* A returned build whose element size exceeds the head radius and the shank
\* diameter.
C7_Witness ==
    /\ Returned /\ ValidParams(params)
    /\ 2 * params.element_size > params.head_diameter
    /\ params.element_size > params.shank_diameter
    /\ LayerLines("HEAD", 0) # {}
    /\ LayerLines("SHANK", 0) # {}

\* ---- C8 ----
\* Two builds that differ in element_size only, all parameters positive.
SameButElementSize(p, q) ==
    /\ ValidParams(p) /\ ValidParams(q)
    /\ p.head_diameter = q.head_diameter
    /\ p.head_thickness = q.head_thickness
    /\ p.shank_diameter = q.shank_diameter
    /\ p.shank_length = q.shank_length

\* C8: of two returned builds that differ only in element_size, the one with
\* the smaller element size wrote at least as many node lines and at least as
\* many element lines.
C8_CountsMonotoneInElementSize ==
    (Returned /\ prev.built /\ SameButElementSize(prev.params, params)) =>
        LET N == Len(NodeLines)
            E == Len(ElementLines)
        IN  /\ prev.params.element_size < params.element_size =>
                  (prev.node_lines >= N /\ prev.element_lines >= E)
            /\ prev.params.element_size > params.element_size =>
                  (prev.node_lines <= N /\ prev.element_lines <= E)

\* Two returned builds, the first with the smaller element size and strictly
\* more node lines and element lines.
C8_Witness ==
    /\ Returned /\ prev.built /\ SameButElementSize(prev.params, params)
    /\ prev.params.element_size < params.element_size
    /\ prev.node_lines > Len(NodeLines)
    /\ prev.element_lines > Len(ElementLines)

\* ---- C9 ----
\* C9: once node generation has finished with positive parameters, nodes has
\* one key per node line written: the number of keys is N and every id in 1..N
\* is the value of exactly one key.
C9_OneKeyPerNode ==
    (NodesGenerated /\ ValidParams(params)) =>
        LET N == Len(NodeLines)
        IN  /\ Cardinality(DOMAIN nodes) = N
            /\ \A id \in 1..N : Cardinality({ k \in DOMAIN nodes : nodes[k] = id }) = 1

\* ---- C10 ----
\* C10: with positive parameters, every key looked up for the element about
\* to be written (8 for a head cell, 4 for a shank cell) is a key of nodes, so
\* nodes.get never substitutes its default.
C10_LookupsNeverDefault ==
    ValidParams(params) =>
        /\ pc = "head_elements" =>
              \A j \in 1..8 : HeadCornerKeys(layer, i, r)[j] \in DOMAIN nodes
        /\ pc = "shank_elements" =>
              \A j \in 1..4 : ShankCornerKeys(params, layer, i)[j] \in DOMAIN nodes

\* The last shank cell of a build that also wrote head elements is about to
\* be looked up.
C10_Witness ==
    /\ pc = "shank_elements" /\ ValidParams(params)
    /\ layer = NumShankLengthElements(params) - 1
    /\ i = NumCircumferentialElements(params) - 1
    /\ NumShankLengthElements(params) >= 2
    /\ \E e \in 1..Len(ElementLines) : ElementLines[e].region = "HEAD"

====
